---- MODULE Spec2Model ----
(***************************************************************************)
(* State-machine model of the eUPF Kubernetes operator charm.              *)
(*                                                                         *)
(* The external systems the charm drives (the Kubernetes object store, the *)
(* pebble supervisor and file system of the workload container, the        *)
(* workload's routing table, the fiveg_n4 relation data) are the state.    *)
(* Every handler of the charm (EupfK8SOperatorCharm._configure,            *)
(* _on_remove, _on_collect_status) is one action; the calls a handler      *)
(* makes are recorded, in order, in `calls`, and an exception that leaves  *)
(* the handler is recorded in `exc`.                                       *)
(***************************************************************************)
EXTENDS Integers, Sequences, FiniteSets, TLC

\* ------------------------------------------------------------------ bounds
\* Number of distinct valid configurations (they differ in a rendered field).
NumConfigs == 2
\* Longest volume / volumeMount list the object store is explored with.
MaxList == 4
\* Number of fiveg_n4 relations the model is explored with.
MaxRelations == 1
\* Number of handler runs in which the environment injects a fault.
MaxFaults == 1
MaxN3Relations == 2

\* ------------------------------------------------------- program constants
PFCP_PORT == 8805
PROMETHEUS_PORT == 9090

CONFIG_FILE == "/etc/eupf/config.yaml"
ContainerName == "eupf"
ServiceNameExt == "eupf-external"
AppName == "eupf"
CAP_NET_ADMIN == TRUE
PRIVILEGED == TRUE

\* ------------------------------------------------------------ configuration
\* 0 stands for a configuration CharmConfig.from_charm rejects.
Configs == 0..NumConfigs
ValidConfigs == 1..NumConfigs

\* CharmConfig.from_charm: raises CharmConfigInvalidError on a rejected config.
CharmConfigInvalid(c) == c = 0

\* ------------------------------------------------------------ config file
\* A file content is a text: `doc` is the YAML document it parses to (0: the
\* text is not valid YAML) and `fmt` the way the text is written (1: as the
\* template renders it, 2: any other spelling of the same document).
Contents == [doc : 0..NumConfigs, fmt : 1..2]

\* render_upf_config_file: the template rendered with the configuration.
render_upf_config_file(c) == [doc |-> c, fmt |-> 1]

\* yaml.safe_load: the parsed document; "YAMLError" for a text that is no YAML.
YamlOk(content) == content.doc # 0
safe_load(content) == content.doc

\* ------------------------------------------------------- Kubernetes objects
\* Service built by PFCPService.create; lbHostname is the hostname the load
\* balancer reports in the Service's status ("" for none), which the cluster
\* sets and an apply leaves alone.
DesiredService ==
  [name |-> ServiceNameExt, labels |-> AppName, selector |-> AppName,
   port |-> PFCP_PORT, protocol |-> "UDP", type |-> "LoadBalancer",
   lbHostname |-> ""]

\* EBPFVolume.requested_volumemount / requested_volume.
requested_volumemount == [name |-> "ebpf", mountPath |-> "/sys/fs/bpf"]
requested_volume == [name |-> "ebpf", hostPath |-> "/sys/fs/bpf"]

\* What Juju puts in the StatefulSet of a sidecar charm.
CharmDataMount == [name |-> "charm-data", mountPath |-> "/charm/container"]
CharmDataVolume == [name |-> "charm-data", hostPath |-> ""]

NoSecurityContext ==
  [present |-> FALSE, capabilities |-> FALSE, add |-> {}, privileged |-> FALSE]

InitContainers ==
  << [name |-> "charm", volumeMounts |-> <<CharmDataMount>>,
      securityContext |-> NoSecurityContext],
     [name |-> ContainerName, volumeMounts |-> <<CharmDataMount>>,
      securityContext |-> NoSecurityContext] >>

InitStatefulSet ==
  [selector |-> AppName, serviceName |-> "eupf-endpoints",
   containers |-> InitContainers, volumes |-> <<CharmDataVolume>>]

\* ------------------------------------------------------------- pebble plan
\* EupfK8SOperatorCharm._pebble_layer: the services of the layer.
pebble_layer_services ==
  { [name |-> "eupf", override |-> "replace", startup |-> "enabled",
     command |-> "/bin/eupf --config /etc/eupf/config.yaml"] }

\* A service another layer of the container defines, and the eupf service as
\* an earlier layer may have defined it.
OtherService ==
  [name |-> "other", override |-> "replace", startup |-> "enabled",
   command |-> "/bin/other"]
StaleEupfService ==
  [name |-> "eupf", override |-> "replace", startup |-> "enabled",
   command |-> "/bin/eupf --config /etc/eupf/old.yaml"]

\* ------------------------------------------------------------------ routes
DefaultRoute == "default via n6_gateway_ip"
RanRoute == "gnb_subnet via n3_gateway_ip"

\* ------------------------------------------------------------------ faults
\* What the environment answers to one call of a handler. A fault names the
\* call site it hits; the sites are the calls the source makes.
\*   Unauthorized: lightkube ApiError with status.reason "Unauthorized"
\*   NotFound:     lightkube ApiError with any other reason (404 and the like)
\*   Unreachable:  the API server cannot be reached (httpx transport error,
\*                 which is no HTTPStatusError and no ApiError); explored at
\*                 the one site where it is told apart from an ApiError
\*   ConnectionError / ExecError: ops.pebble errors
NoFault == [site |-> "none", kind |-> "none"]

K8sReadSites == {"ebpf.pod.get", "ebpf.sts.get", "multus.sts.get"}
K8sCallSites ==
  {"svc.apply", "svc.delete", "multus.patch.get", "multus.patch",
   "ebpf.create.get", "ebpf.replace", "n4.svc.get"}
PebbleSites ==
  {"file.exists", "file.pull", "file.push",
   "plan.get", "plan.add_layer", "plan.replan", "plan.restart"}
ExecSites ==
  {"exec.show.default", "exec.route.default", "exec.show.ran", "exec.route.ran",
   "exec.sysctl"}

Faults ==
  {NoFault}
  \cup [site : {"svc.get"}, kind : {"Unauthorized", "Unreachable"}]
  \cup [site : K8sReadSites, kind : {"Unauthorized", "NotFound"}]
  \cup [site : K8sCallSites, kind : {"NotFound"}]
  \cup [site : PebbleSites, kind : {"ConnectionError"}]
  \cup [site : ExecSites, kind : {"ExecError"}]

\* ------------------------------------------------- a handler's running state
\* The record a handler threads through its calls: the external stores it can
\* write, the calls it has made so far and the exception that ended it.
Call(op, arg) == [op |-> op, arg |-> arg]
Log(s, op, arg) == [s EXCEPT !.calls = Append(@, Call(op, arg))]
Raise(s, e) == [s EXCEPT !.exc = e]
Ret(s, v) == [st |-> s, val |-> v]

\* The exception a failed lightkube call raises at a site that lets it through.
ApiException(f) == IF f.kind = "Unreachable" THEN "ConnectError" ELSE "ApiError"

\* ------------------------------------------------ kubernetes_eupf.PFCPService
\* is_created: True when the get answers; False on any HTTPStatusError (ApiError
\* is one); a transport error is not caught.
PFCPService_is_created(s, f) ==
  LET s1 == Log(s, "svc.get", {})
  IN  IF f.site = "svc.get"
        THEN IF f.kind = "Unreachable"
               THEN Ret(Raise(s1, "ConnectError"), FALSE)
               ELSE Ret(s1, FALSE)
        ELSE Ret(s1, \E x \in s.services : x.name = ServiceNameExt)

\* A create that names the Service after the application instead of
\* service_name: what C3 must tell apart from create.
PFCPService_create_app_name(s, f) ==
  LET s1 == Log(s, "svc.apply", {"metadata", "selector", "ports", "type"})
  IN  IF f.site = "svc.apply"
        THEN Raise(s1, ApiException(f))
        ELSE [s1 EXCEPT !.services = @ \cup {[DesiredService EXCEPT !.name = AppName]}]

\* create: client.apply of the whole Service (server-side apply: create or
\* update the object of that name); nothing is caught.
PFCPService_create(s, f) ==
  LET s1 == Log(s, "svc.apply", {"metadata", "selector", "ports", "type"})
  IN  IF f.site = "svc.apply"
        THEN Raise(s1, ApiException(f))
        ELSE [s1 EXCEPT !.services =
                {x \in @ : x.name # ServiceNameExt}
                \cup (IF \E x \in @ : x.name = ServiceNameExt
                        THEN {[DesiredService EXCEPT !.lbHostname = x.lbHostname] :
                                x \in {y \in @ : y.name = ServiceNameExt}}
                        ELSE {DesiredService})]

\* delete: client.delete; an HTTPStatusError is logged and swallowed.
PFCPService_delete(s, f) ==
  LET s1 == Log(s, "svc.delete", {})
  IN  IF f.site = "svc.delete"
        THEN IF f.kind = "Unreachable" THEN Raise(s1, "ConnectError") ELSE s1
        ELSE IF \E x \in s.services : x.name = ServiceNameExt
               THEN [s1 EXCEPT !.services = {x \in @ : x.name # ServiceNameExt}]
               ELSE s1   \* 404: an ApiError, swallowed

\* ------------------------------------------------- kubernetes_eupf.EBPFVolume
\* _get_container: the first container of that name; <<>> stands for the
\* RuntimeError raised when there is none.
RECURSIVE IndexOfName(_, _, _)
IndexOfName(containers, name, i) ==
  IF i > Len(containers) THEN 0
  ELSE IF containers[i].name = name THEN i
  ELSE IndexOfName(containers, name, i + 1)

get_container_index(containers, name) == IndexOfName(containers, name, 1)

InSeq(x, seq) == \E i \in 1..Len(seq) : seq[i] = x

\* _pod_contains_requested_volumemount (the container is known to exist).
pod_contains_requested_volumemount(containers, name, mount) ==
  LET c == containers[get_container_index(containers, name)]
  IN  IF Len(c.volumeMounts) = 0 THEN FALSE ELSE InSeq(mount, c.volumeMounts)

\* _statefulset_contains_requested_volume.
statefulset_contains_requested_volume(sts, volume) ==
  IF Len(sts.volumes) = 0 THEN FALSE ELSE InSeq(volume, sts.volumes)

\* _pod_is_patched: get the Pod; Unauthorized answers False, any other ApiError
\* raises RuntimeError; then look for the volumeMount in the container.
EBPF_pod_is_patched(s, f, pod) ==
  LET s1 == Log(s, "pod.get", {})
  IN  IF f.site = "ebpf.pod.get"
        THEN CASE f.kind = "Unauthorized" -> Ret(s1, FALSE)
               [] f.kind = "NotFound" -> Ret(Raise(s1, "RuntimeError"), FALSE)
               [] OTHER -> Ret(Raise(s1, "ConnectError"), FALSE)
        ELSE IF get_container_index(pod, ContainerName) = 0
               THEN Ret(Raise(s1, "RuntimeError"), FALSE)
               ELSE Ret(s1, pod_contains_requested_volumemount(
                              pod, ContainerName, requested_volumemount))

\* _statefulset_is_patched: the same for the StatefulSet and its volume.
EBPF_statefulset_is_patched(s, f) ==
  LET s1 == Log(s, "sts.get", {})
  IN  IF f.site = "ebpf.sts.get"
        THEN CASE f.kind = "Unauthorized" -> Ret(s1, FALSE)
               [] f.kind = "NotFound" -> Ret(Raise(s1, "RuntimeError"), FALSE)
               [] OTHER -> Ret(Raise(s1, "ConnectError"), FALSE)
        ELSE Ret(s1, statefulset_contains_requested_volume(s.sts, requested_volume))

\* `p and _statefulset_is_patched()`: the StatefulSet is looked at only when
\* the pod check answered True.
PodThenStatefulSet(p, f) ==
  IF p.st.exc # "none" \/ ~p.val THEN p ELSE EBPF_statefulset_is_patched(p.st, f)

\* is_created: _pod_is_patched() and _statefulset_is_patched() (short-circuit).
EBPFVolume_is_created(s, f, pod) ==
  PodThenStatefulSet(EBPF_pod_is_patched(s, f, pod), f)

\* A create that puts a freshly built container, holding only the mount, in
\* place of the one it read: what C15 must tell apart from create.
WithEbpfVolume_fresh_container(sts) ==
  LET i == get_container_index(sts.containers, ContainerName)
  IN  [sts EXCEPT
         !.containers[i] = [name |-> ContainerName,
                            volumeMounts |-> <<requested_volumemount>>,
                            securityContext |-> NoSecurityContext],
         !.volumes = Append(@, requested_volume)]

\* The StatefulSet as EBPFVolume.create changes it before replacing it: the
\* volumeMount appended to the container, the volume appended to the template.
WithEbpfVolume(sts) ==
  LET i == get_container_index(sts.containers, ContainerName)
  IN  [sts EXCEPT
         !.containers[i].volumeMounts =
            IF Len(@) = 0 THEN <<requested_volumemount>>
            ELSE Append(@, requested_volumemount),
         !.volumes =
            IF Len(@) = 0 THEN <<requested_volume>>
            ELSE Append(@, requested_volume)]

\* The fields of the StatefulSet a replace writes: the whole object.
StatefulSetFields ==
  {"selector", "serviceName", "containers.volumeMounts",
   "containers.securityContext", "volumes"}

\* A create that sends the replace a second time when the first one fails:
\* what C21 must tell apart from create.
EBPFVolume_create_retry(s, f) ==
  LET s1 == Log(s, "sts.get", {})
  IN  IF f.site = "ebpf.create.get"
        THEN Raise(s1, IF f.kind = "Unreachable" THEN "ConnectError" ELSE "RuntimeError")
      ELSE IF get_container_index(s.sts.containers, ContainerName) = 0
        THEN Raise(s1, "RuntimeError")
      ELSE IF f.site = "ebpf.replace"
        THEN [Log(Log(s1, "sts.replace", StatefulSetFields),
                  "sts.replace", StatefulSetFields)
                EXCEPT !.sts = WithEbpfVolume(s.sts)]
      ELSE [Log(s1, "sts.replace", StatefulSetFields)
              EXCEPT !.sts = WithEbpfVolume(s.sts)]

\* create: get the StatefulSet, add the mount and the volume, replace it. Every
\* ApiError becomes a RuntimeError.
EBPFVolume_create(s, f) ==
  LET s1 == Log(s, "sts.get", {})
  IN  IF f.site = "ebpf.create.get"
        THEN Raise(s1, IF f.kind = "Unreachable" THEN "ConnectError" ELSE "RuntimeError")
      ELSE IF get_container_index(s.sts.containers, ContainerName) = 0
        THEN Raise(s1, "RuntimeError")
      ELSE LET s2 == Log(s1, "sts.replace", StatefulSetFields)
           IN  IF f.site = "ebpf.replace"
                 THEN Raise(s2, IF f.kind = "Unreachable" THEN "ConnectError"
                                ELSE "RuntimeError")
                 ELSE [s2 EXCEPT !.sts = WithEbpfVolume(s.sts)]


\* ------------------------------- kubernetes_charm_libraries.multus (library)
\* KubernetesClient._container_security_context_is_set: every container of the
\* requested name must carry the security context; the loop answers True when
\* it ends without a refusal.
container_security_context_is_set(containers, name, cap_net_admin, privileged) ==
  \A i \in 1..Len(containers) :
     containers[i].name = name =>
        LET sc == containers[i].securityContext
        IN  /\ sc.present
            /\ sc.capabilities
            /\ sc.add # {}
            /\ (cap_net_admin => "NET_ADMIN" \in sc.add)
            /\ (privileged => sc.privileged)

\* KubernetesClient.statefulset_is_patched: get the StatefulSet; Unauthorized
\* answers False, any other ApiError raises KubernetesMultusError.
statefulset_is_patched(s, f, cap_net_admin, privileged) ==
  LET s1 == Log(s, "sts.get", {})
  IN  IF f.site = "multus.sts.get"
        THEN CASE f.kind = "Unauthorized" -> Ret(s1, FALSE)
               [] f.kind = "NotFound" -> Ret(Raise(s1, "KubernetesMultusError"), FALSE)
               [] OTHER -> Ret(Raise(s1, "ConnectError"), FALSE)
        ELSE Ret(s1, container_security_context_is_set(
                       s.sts.containers, ContainerName, cap_net_admin, privileged))

\* The security context patch_statefulset builds for Container(name=...):
\* SecurityContext(capabilities=Capabilities(add=["NET_ADMIN"])) when
\* cap_net_admin, then .privileged = True when privileged.
PatchSecurityContext(cap_net_admin, privileged) ==
  LET sc0 == IF cap_net_admin
               THEN [present |-> TRUE, capabilities |-> TRUE,
                     add |-> {"NET_ADMIN"}, privileged |-> FALSE]
               ELSE NoSecurityContext
  IN  IF privileged THEN [sc0 EXCEPT !.privileged = TRUE] ELSE sc0

\* Setting .privileged on a securityContext that is None: AttributeError.
PatchBuildFails(cap_net_admin, privileged) == privileged /\ ~cap_net_admin

\* The fields the patch body names: selector and serviceName as read, and the
\* one container with its securityContext.
PatchFields(cap_net_admin, privileged) ==
  {"selector", "serviceName"}
  \cup (IF cap_net_admin \/ privileged THEN {"containers.securityContext"} ELSE {})

\* client.patch(..., patch_type=APPLY): the fields the body names are set on
\* the container of that name; everything else stays.
ApplyPatch(sts, name, sc) ==
  [sts EXCEPT !.containers =
     [i \in 1..Len(@) |->
        IF @[i].name = name /\ sc.present
          THEN [@[i] EXCEPT !.securityContext = sc]
          ELSE @[i]]]

\* KubernetesClient.patch_statefulset: get the StatefulSet, build the delta,
\* patch. Every ApiError becomes a KubernetesMultusError.
patch_statefulset(s, f, cap_net_admin, privileged) ==
  LET s1 == Log(s, "sts.get", {})
  IN  IF f.site = "multus.patch.get"
        THEN Raise(s1, IF f.kind = "Unreachable" THEN "ConnectError"
                       ELSE "KubernetesMultusError")
      ELSE IF PatchBuildFails(cap_net_admin, privileged)
        THEN Raise(s1, "AttributeError")
      ELSE LET s2 == Log(s1, "sts.patch", PatchFields(cap_net_admin, privileged))
           IN  IF f.site = "multus.patch"
                 THEN Raise(s2, IF f.kind = "Unreachable" THEN "ConnectError"
                                ELSE "KubernetesMultusError")
                 ELSE [s2 EXCEPT !.sts =
                         ApplyPatch(@, ContainerName,
                                    PatchSecurityContext(cap_net_admin, privileged))]

\* The body of _configure_multus, given what _statefulset_is_patched answered.
IfNotPatched(r, f, cap_net_admin, privileged) ==
  IF r.st.exc # "none" THEN r.st
  ELSE IF ~r.val THEN patch_statefulset(r.st, f, cap_net_admin, privileged)
  ELSE r.st

\* KubernetesMultusCharmLib._configure_multus: patch unless already patched.
configure_multus(s, f, cap_net_admin, privileged) ==
  IfNotPatched(statefulset_is_patched(s, f, cap_net_admin, privileged),
               f, cap_net_admin, privileged)

\* KubernetesClient.pod_is_ready, on an answered get: the pod's container
\* carries the security context.
pod_is_ready(pod, cap_net_admin, privileged) ==
  container_security_context_is_set(pod, ContainerName, cap_net_admin, privileged)

\* KubernetesMultusCharmLib.is_ready as the charm calls it: the StatefulSet is
\* patched and the pod runs with the patch.
multus_is_ready(sts, pod) ==
  /\ container_security_context_is_set(sts.containers, ContainerName,
                                       CAP_NET_ADMIN, PRIVILEGED)
  /\ pod_is_ready(pod, CAP_NET_ADMIN, PRIVILEGED)


\* ------------------------------------------------ charm.EupfK8SOperatorCharm
\* `if not <check>: <apply>`: the apply runs when the check answered False and
\* raised nothing.
UnlessTrue(r, apply(_)) ==
  IF r.st.exc # "none" THEN r.st
  ELSE IF ~r.val THEN apply(r.st)
  ELSE r.st

\* `<a> and <b>`: b is evaluated only when a answered True.
AndAlso(r, check(_)) ==
  IF r.st.exc # "none" \/ ~r.val THEN r ELSE check(r.st)

\* One statement after another: the next one runs unless an exception is
\* on its way out.
Then(s, stmt(_)) == IF s.exc # "none" THEN s ELSE stmt(s)

\* _configure_pfcp_service
configure_pfcp_service(s, f) ==
  UnlessTrue(PFCPService_is_created(s, f), LAMBDA x : PFCPService_create(x, f))

\* _configure_ebpf_volume
configure_ebpf_volume(s, f, pod) ==
  UnlessTrue(EBPFVolume_is_created(s, f, pod), LAMBDA x : EBPFVolume_create(x, f))

\* _route_exists: `ip route show`, False on ExecError, else the route is
\* looked for in the output.
route_exists(s, f, site, route) ==
  Ret(Log(s, "exec", {"ip route show"}), f.site # site /\ route \in s.routes)

\* _create_default_route / _create_ran_route: `ip route replace ...`; an
\* ExecError is logged and swallowed.
create_route(s, f, site, route) ==
  IF f.site = site THEN Log(s, "exec", {"ip route replace", route})
  ELSE [Log(s, "exec", {"ip route replace", route}) EXCEPT !.routes = @ \cup {route}]

\* _configure_routes: the default route, then the route to the gnb subnet.
configure_default_route(s, f) ==
  UnlessTrue(route_exists(s, f, "exec.show.default", DefaultRoute),
             LAMBDA x : create_route(x, f, "exec.route.default", DefaultRoute))

configure_ran_route(s, f) ==
  UnlessTrue(route_exists(s, f, "exec.show.ran", RanRoute),
             LAMBDA x : create_route(x, f, "exec.route.ran", RanRoute))

configure_routes(s, f) == configure_ran_route(configure_default_route(s, f), f)

\* _enable_ip_forwarding: `sysctl -w net.ipv4.ip_forward=1` on every call; an
\* ExecError of wait_output is not caught.
enable_ip_forwarding(s, f) ==
  IF f.site = "exec.sysctl"
    THEN Raise(Log(s, "exec", {"sysctl -w net.ipv4.ip_forward=1"}), "ExecError")
    ELSE [Log(s, "exec", {"sysctl -w net.ipv4.ip_forward=1"}) EXCEPT !.ipForward = TRUE]

\* _upf_config_file_is_written: can_connect, then exists; False on
\* ConnectionError.
upf_config_file_is_written(s, f, canConn) ==
  IF ~canConn THEN Ret(s, FALSE)
  ELSE Ret(Log(s, "exists", {CONFIG_FILE}), f.site # "file.exists" /\ Len(s.file) > 0)

\* A comparison of the texts instead of the documents they parse to: what C18
\* must tell apart from _upf_config_file_content_matches.
upf_config_file_content_matches_text(s, f, content) ==
  Ret(Log(s, "pull", {CONFIG_FILE}), f.site # "file.pull" /\ s.file[1] = content)

\* _upf_config_file_content_matches: pull, then compare the parsed YAML of
\* both texts; False on ConnectionError and on YAMLError.
upf_config_file_content_matches(s, f, content) ==
  Ret(Log(s, "pull", {CONFIG_FILE}),
      /\ f.site # "file.pull"
      /\ YamlOk(s.file[1])
      /\ YamlOk(content)
      /\ safe_load(s.file[1]) = safe_load(content))

\* A write that keeps the file it finds and pushes the content only when there
\* is none: what C16 must tell apart from _write_upf_config_file.
write_upf_config_file_keep_found(s, f, content) ==
  IF f.site = "file.push" THEN Log(s, "push", {CONFIG_FILE})
  ELSE [Log(s, "push", {CONFIG_FILE}) EXCEPT
          !.file = IF Len(@) > 0 THEN @ ELSE <<content>>]

\* _write_upf_config_file: push; a ConnectionError is logged and swallowed.
write_upf_config_file(s, f, content) ==
  IF f.site = "file.push" THEN Log(s, "push", {CONFIG_FILE})
  ELSE [Log(s, "push", {CONFIG_FILE}) EXCEPT !.file = <<content>>]

\* The condition of _generate_config_file, negated: the file is written and
\* its content matches.
WrittenAndMatches(s, f, content, canConn) ==
  AndAlso(upf_config_file_is_written(s, f, canConn),
          LAMBDA x : upf_config_file_content_matches(x, f, content))

\* A body that writes whatever the condition answered: what C2 must tell apart
\* from _generate_config_file.
WriteAlways(r, f, content) ==
  Ret(write_upf_config_file(r.st, f, content), TRUE)

\* The body of the `if` of _generate_config_file and its two returns: True
\* whenever the write was attempted.
WriteUnless(r, f, content) ==
  IF ~r.val THEN Ret(write_upf_config_file(r.st, f, content), TRUE)
  ELSE Ret(r.st, FALSE)

\* _generate_config_file: render, write unless the file is there with the same
\* content.
generate_config_file(s, f, c, canConn) ==
  WriteUnless(WrittenAndMatches(s, f, render_upf_config_file(c), canConn),
              f, render_upf_config_file(c))

\* An add_layer that adds the layer's services beside those of the same name:
\* what C17 must tell apart from add_layer with override "replace".
CombineLayer_beside(planServices, layer) ==
  planServices \cup layer

\* Container.add_layer(name, layer, combine=True) with override "replace": the
\* layer's services replace the plan's services of the same name.
CombineLayer(planServices, layer) ==
  {x \in planServices : \A y \in layer : y.name # x.name} \cup layer

\* A replan that starts nothing: what C28 must tell apart from replan.
Replan_starts_nothing(s, f, definitionChanged) ==
  IF f.site = "plan.replan" THEN Ret(Log(s, "replan", {}), TRUE)
  ELSE Ret(Log(s, "replan", {}), FALSE)

\* replan, after a successful add_layer; val: the method returned here. Pebble
\* starts the service when it is not running and restarts it when its
\* definition changed; a started service reads the config file as it is then.
Replan(s, f, definitionChanged) ==
  IF f.site = "plan.replan" THEN Ret(Log(s, "replan", {}), TRUE)
  ELSE Ret([Log(s, "replan", {}) EXCEPT
              !.running = TRUE,
              !.loaded = IF s.running /\ ~definitionChanged THEN @ ELSE s.file],
           FALSE)

\* An add_layer whose failure is logged and followed by the replan all the
\* same: what C31 must tell apart from _configure_pebble.
AddLayerAndReplan_goes_on(s, f) ==
  IF f.site = "plan.add_layer"
    THEN Replan(Log(s, "add_layer", {"eupf"}), f, ~(pebble_layer_services \subseteq s.plan))
  ELSE Replan([Log(s, "add_layer", {"eupf"}) EXCEPT
                 !.plan = CombineLayer(@, pebble_layer_services)],
              f, ~(pebble_layer_services \subseteq s.plan))

\* add_layer then replan; val: the method returned inside the block.
AddLayerAndReplan(s, f) ==
  IF f.site = "plan.add_layer" THEN Ret(Log(s, "add_layer", {"eupf"}), TRUE)
  ELSE Replan([Log(s, "add_layer", {"eupf"}) EXCEPT
                 !.plan = CombineLayer(@, pebble_layer_services)],
              f, ~(pebble_layer_services \subseteq s.plan))

\* The `if plan.services != self._pebble_layer.services` block.
LayerBlock(s, f) ==
  IF s.plan # pebble_layer_services THEN AddLayerAndReplan(s, f) ELSE Ret(s, FALSE)

\* The `if restart` block: a ConnectionError is logged and swallowed.
RestartBlock(r, f, restart) ==
  IF r.val \/ ~restart THEN r.st
  ELSE IF f.site = "plan.restart" THEN Log(r.st, "restart", {"eupf"})
  ELSE [Log(r.st, "restart", {"eupf"}) EXCEPT !.running = TRUE, !.loaded = r.st.file]

\* _configure_pebble: get_plan; add_layer and replan when the plan's services
\* differ from the layer's; restart when asked. Every ConnectionError ends the
\* method.
configure_pebble(s, f, restart) ==
  IF f.site = "plan.get" THEN Log(s, "get_plan", {})
  ELSE RestartBlock(LayerBlock(Log(s, "get_plan", {}), f), f, restart)

\* external-hostname of a configuration ("" when not set).
ExternalHostname(c) == IF c % 2 = 0 THEN "upf.example.com" ELSE ""

\* _upf_hostname
upf_hostname == "eupf-external.whatever.svc.cluster.local"

\* The load-balancer hostname of the Service found ("" for None).
HostnameOf(found) == IF found = {} THEN "" ELSE (CHOOSE x \in found : TRUE).lbHostname

\* kubernetes_eupf.get_upf_load_balancer_service_hostname: get the Service
\* (nothing is caught, a missing Service is an ApiError); its load-balancer
\* hostname.
get_upf_load_balancer_service_hostname(s, f) ==
  IF f.site = "n4.svc.get" THEN Ret(Raise(Log(s, "svc.get", {}), ApiException(f)), "")
  ELSE IF ~\E x \in s.services : x.name = ServiceNameExt
    THEN Ret(Raise(Log(s, "svc.get", {}), "ApiError"), "")
  ELSE Ret(Log(s, "svc.get", {}),
           HostnameOf({x \in s.services : x.name = ServiceNameExt}))

\* The last alternative of _get_n4_upf_hostname.
OrDefault(r) == IF r.st.exc = "none" /\ r.val = "" THEN Ret(r.st, upf_hostname) ELSE r

\* A choice that asks the load balancer first and the configuration second:
\* what C32 must tell apart from _get_n4_upf_hostname.
get_n4_upf_hostname_lb_first(s, f, c) ==
  IF get_upf_load_balancer_service_hostname(s, f).st.exc = "none"
     /\ get_upf_load_balancer_service_hostname(s, f).val # ""
    THEN get_upf_load_balancer_service_hostname(s, f)
  ELSE IF ExternalHostname(c) # "" THEN Ret(s, ExternalHostname(c))
  ELSE OrDefault(get_upf_load_balancer_service_hostname(s, f))

\* _get_n4_upf_hostname: the configured hostname, else the load balancer's,
\* else the cluster-local name of the Service.
get_n4_upf_hostname(s, f, c) ==
  IF ExternalHostname(c) # "" THEN Ret(s, ExternalHostname(c))
  ELSE OrDefault(get_upf_load_balancer_service_hostname(s, f))

\* N4Provides.publish_upf_n4_information: hostname and port written to the
\* application databag of the relation.
publish_upf_n4_information(s, rel, hostname, port) ==
  [Log(s, "relation.set", {"upf_hostname", "upf_port"}) EXCEPT
     !.n4data = {d \in @ : d.rel # rel}
                \cup {[rel |-> rel, hostname |-> hostname, port |-> port]}]

\* One turn of the loop of _update_fiveg_n4_relation_data.
PublishOn(h, rel) ==
  IF h.st.exc # "none" THEN h.st
  ELSE publish_upf_n4_information(h.st, rel, h.val, PFCP_PORT)

LeastOf(rels) == CHOOSE r \in rels : \A q \in rels : r <= q

\* _update_fiveg_n4_relation_data: publish on every fiveg_n4 relation.
RECURSIVE update_fiveg_n4_relation_data(_, _, _, _)
update_fiveg_n4_relation_data(s, f, c, rels) ==
  IF rels = {} \/ s.exc # "none" THEN s
  ELSE update_fiveg_n4_relation_data(
         PublishOn(get_n4_upf_hostname(s, f, c), LeastOf(rels)),
         f, c, rels \ {LeastOf(rels)})

\* The end of a handler: how it ended, and the value _generate_config_file
\* returned in it ("none" when it was not reached).
End(s, how, restart) ==
  [s EXCEPT !.outcome = IF s.exc # "none" THEN "raised" ELSE how,
            !.changed = restart]

Flag(b) == IF b THEN "true" ELSE "false"

\* Lines 181-182 of _configure, given what _generate_config_file returned.
PebbleAndRelation(g, f, c, rels) ==
  End(update_fiveg_n4_relation_data(
        Then(configure_pebble(g.st, f, g.val),
             LAMBDA x : x), f, c, rels),
      "done", Flag(g.val))

\* Lines 180-182 of _configure.
ConfigFileOnwards(s, f, c, canConn, rels) ==
  IF s.exc # "none" THEN End(s, "raised", "none")
  ELSE PebbleAndRelation(generate_config_file(s, f, c, canConn), f, c, rels)

\* Lines 176-179 of _configure.
MultusToForwarding(s, f, pod) ==
  Then(Then(Then(configure_multus(s, f, CAP_NET_ADMIN, PRIVILEGED),
                 LAMBDA x : configure_ebpf_volume(x, f, pod)),
            LAMBDA x : configure_routes(x, f)),
       LAMBDA x : enable_ip_forwarding(x, f))

\* A pass that goes on when Multus is not available: what C27 must tell apart
\* from _configure.
AfterPfcpService_without_multus(s, f, c, canConn, multusIsAvailable, pod, rels) ==
  IF s.exc # "none" THEN End(s, "raised", "none")
  ELSE ConfigFileOnwards(MultusToForwarding(s, f, pod), f, c, canConn, rels)

\* Lines 173-182 of _configure, after _configure_pfcp_service.
AfterPfcpService(s, f, c, canConn, multusIsAvailable, pod, rels) ==
  IF s.exc # "none" THEN End(s, "raised", "none")
  ELSE IF ~multusIsAvailable THEN End(s, "no_multus", "none")
  ELSE ConfigFileOnwards(MultusToForwarding(s, f, pod), f, c, canConn, rels)

\* A pass that looks after the PFCP Service before it asks whether the
\* container can be connected to: what C26 must tell apart from _configure.
configure_service_first(s, f, c, isLeader, canConn, multusIsAvailable, pod, rels) ==
  IF CharmConfigInvalid(c) THEN End(s, "invalid_config", "none")
  ELSE IF ~isLeader THEN End(s, "not_leader", "none")
  ELSE IF ~canConn THEN End(configure_pfcp_service(s, f), "cannot_connect", "none")
  ELSE AfterPfcpService(configure_pfcp_service(s, f), f, c, canConn,
                        multusIsAvailable, pod, rels)

\* _configure: the reconciliation pass.
configure(s, f, c, isLeader, canConn, multusIsAvailable, pod, rels) ==
  IF CharmConfigInvalid(c) THEN End(s, "invalid_config", "none")
  ELSE IF ~isLeader THEN End(s, "not_leader", "none")
  ELSE IF ~canConn THEN End(s, "cannot_connect", "none")
  ELSE AfterPfcpService(configure_pfcp_service(s, f), f, c, canConn,
                        multusIsAvailable, pod, rels)

\* The body of _on_remove.
DeleteIfCreated(r, f) ==
  IF r.st.exc = "none" /\ r.val THEN PFCPService_delete(r.st, f) ELSE r.st

\* _on_remove: delete the PFCP Service when it is there. __init__ observes
\* the remove event only after the configuration was accepted.
on_remove(s, f, c) ==
  IF CharmConfigInvalid(c) THEN End(s, "not_observed", "none")
  ELSE End(DeleteIfCreated(PFCPService_is_created(s, f), f), "done", "none")

\* ------------------------------------------------------------------ status
Status(name, message) == [name |-> name, message |-> message]
ActiveStatus == Status("active", "")
InvalidConfigMessage == "The following configurations are not valid: [...]"

\* A check that takes a service the plan does not define for a running one:
\* what C20 must tell apart from _eupf_service_is_running.
eupf_service_is_running_when_undefined(plan, isRunning) ==
  IF ~\E x \in plan : x.name = "eupf" THEN TRUE ELSE isRunning

\* _eupf_service_is_running: get_service raises ModelError for a service the
\* plan does not hold, which answers False.
eupf_service_is_running(plan, isRunning) ==
  IF ~\E x \in plan : x.name = "eupf" THEN FALSE ELSE isRunning

\* A handler that looks whether the file is there without asking whether the
\* container can be reached: what C19 must tell apart from _on_collect_status.
on_collect_status_no_can_connect(isLeader, c, multusIsAvailable, statefulset, podSpec, canConn, configFile, planServices, isRunning, f) ==
  IF ~isLeader
    THEN <<Status("blocked", "Scaling is not implemented for this charm")>>
  ELSE IF CharmConfigInvalid(c)
    THEN <<Status("blocked", InvalidConfigMessage)>>
  ELSE IF ~multusIsAvailable
    THEN <<Status("blocked", "Multus is not installed or enabled")>>
  ELSE IF ~multus_is_ready(statefulset, podSpec)
    THEN <<Status("waiting", "Waiting for Multus to be ready")>>
  ELSE IF ~(f.site # "file.exists" /\ Len(configFile) > 0)
    THEN <<Status("waiting", "Waiting for UPF configuration file")>>
  ELSE IF ~eupf_service_is_running(planServices, isRunning)
    THEN <<Status("waiting", "Waiting for UPF service to start")>>
  ELSE <<ActiveStatus>>

\* A handler that looks at the configuration before the leadership: what C7
\* must tell apart from _on_collect_status.
on_collect_status_config_first(isLeader, c, multusIsAvailable, statefulset, podSpec, canConn, configFile, planServices, isRunning, f) ==
  IF CharmConfigInvalid(c)
    THEN <<Status("blocked", InvalidConfigMessage)>>
  ELSE IF ~isLeader
    THEN <<Status("blocked", "Scaling is not implemented for this charm")>>
  ELSE IF ~multusIsAvailable
    THEN <<Status("blocked", "Multus is not installed or enabled")>>
  ELSE IF ~multus_is_ready(statefulset, podSpec)
    THEN <<Status("waiting", "Waiting for Multus to be ready")>>
  ELSE IF ~(canConn /\ f.site # "file.exists" /\ Len(configFile) > 0)
    THEN <<Status("waiting", "Waiting for UPF configuration file")>>
  ELSE IF ~eupf_service_is_running(planServices, isRunning)
    THEN <<Status("waiting", "Waiting for UPF service to start")>>
  ELSE <<ActiveStatus>>

\* _on_collect_status: the statuses the handler adds, in the order it adds them.
on_collect_status(isLeader, c, multusIsAvailable, statefulset, podSpec, canConn, configFile, planServices, isRunning, f) ==
  IF ~isLeader
    THEN <<Status("blocked", "Scaling is not implemented for this charm")>>
  ELSE IF CharmConfigInvalid(c)
    THEN <<Status("blocked", InvalidConfigMessage)>>
  ELSE IF ~multusIsAvailable
    THEN <<Status("blocked", "Multus is not installed or enabled")>>
  ELSE IF ~multus_is_ready(statefulset, podSpec)
    THEN <<Status("waiting", "Waiting for Multus to be ready")>>
  ELSE IF ~(canConn /\ f.site # "file.exists" /\ Len(configFile) > 0)
    THEN <<Status("waiting", "Waiting for UPF configuration file")>>
  ELSE IF ~eupf_service_is_running(planServices, isRunning)
    THEN <<Status("waiting", "Waiting for UPF service to start")>>
  ELSE <<ActiveStatus>>

\* ========================================================= fiveg_n3 library
\* An address as the text the caller passes: its separator and the numbers
\* between the separators. The empty string has no part; NoAddress is the
\* None that dict.get returns for a key the databag does not hold.
NoAddress == [sep |-> "none", parts |-> <<>>]
EmptyString == [sep |-> ".", parts |-> <<>>]

Addresses ==
  { [sep |-> ".", parts |-> <<192, 168, 251, 5>>],
    [sep |-> ":", parts |-> <<8193, 3512, 0, 0, 0, 0, 0, 1>>],
    [sep |-> ".", parts |-> <<192, 168, 251, 256>>],
    [sep |-> ".", parts |-> <<192, 168, 251>>],
    EmptyString }

\* pydantic's IPvAnyAddress: four numbers of a byte each separated by dots, or
\* eight groups of sixteen bits separated by colons.
IPvAnyAddress(a) ==
  \/ a.sep = "." /\ Len(a.parts) = 4 /\ \A i \in 1..4 : a.parts[i] \in 0..255
  \/ a.sep = ":" /\ Len(a.parts) = 8 /\ \A i \in 1..8 : a.parts[i] \in 0..65535

\* data_matches_provider_schema({"upf_ip_address": a}): False on
\* ValidationError.
data_matches_provider_schema(a) == IPvAnyAddress(a)

\* The truth value of a string or None.
Truthy(a) == a.parts # <<>>

\* A publish that writes the databag before it validates the address: what C23
\* must tell apart from publish_upf_information.
publish_upf_information_write_first(bag, rels, relation_id, upf_ip_address) ==
  IF relation_id \notin rels THEN [bag |-> bag, exc |-> "RuntimeError"]
  ELSE IF ~data_matches_provider_schema(upf_ip_address)
    THEN [bag |-> [bag EXCEPT ![relation_id] = upf_ip_address], exc |-> "ValueError"]
  ELSE [bag |-> [bag EXCEPT ![relation_id] = upf_ip_address], exc |-> "none"]

\* N3Provides.publish_upf_information: ValueError for an address that does not
\* match the schema, then RuntimeError for a relation the model does not hold,
\* else the address as passed goes to the provider's application databag.
publish_upf_information(bag, rels, relation_id, upf_ip_address) ==
  IF ~data_matches_provider_schema(upf_ip_address)
    THEN [bag |-> bag, exc |-> "ValueError"]
  ELSE IF relation_id \notin rels
    THEN [bag |-> bag, exc |-> "RuntimeError"]
  ELSE [bag |-> [bag EXCEPT ![relation_id] = upf_ip_address], exc |-> "none"]

\* N3Provides._on_relation_joined: fiveg_n3_request with the relation's id.
N3Provides_on_relation_joined(relation_id) ==
  << [event |-> "fiveg_n3_request", relation_id |-> relation_id] >>

\* A handler that emits whatever dict.get returned: what C24 must tell apart
\* from _on_relation_changed.
N3Requires_on_relation_changed_no_test(bag, relation_id) ==
  << [event |-> "fiveg_n3_available", upf_ip_address |-> bag[relation_id]] >>

\* N3Requires._on_relation_changed (observes relation_joined and
\* relation_changed): fiveg_n3_available with the address of the remote
\* application's databag when it holds one.
N3Requires_on_relation_changed(bag, relation_id) ==
  IF Truthy(bag[relation_id])
    THEN << [event |-> "fiveg_n3_available", upf_ip_address |-> bag[relation_id]] >>
    ELSE << >>

\* The calls of is_ready: the StatefulSet, then the pod when the StatefulSet
\* is patched.
is_ready_calls(statefulset) ==
  IF container_security_context_is_set(statefulset.containers, ContainerName,
                                       CAP_NET_ADMIN, PRIVILEGED)
    THEN <<Call("sts.get", {}), Call("pod.get", {})>>
    ELSE <<Call("sts.get", {})>>

\* The calls of _upf_config_file_is_written: exists, when the container can be
\* connected to.
upf_config_file_is_written_calls(canConn) ==
  IF canConn THEN <<Call("exists", {CONFIG_FILE})>> ELSE <<>>

\* The file is seen in the container.
ConfigFileSeen(canConn, configFile, f) ==
  canConn /\ f.site # "file.exists" /\ Len(configFile) > 0

\* A status evaluation that restarts the service when it finds the file
\* written: what C33 must tell apart from _on_collect_status.
on_collect_status_calls_restarting(isLeader, c, multusIsAvailable, statefulset, podSpec, canConn, configFile, f) ==
  IF ~isLeader \/ CharmConfigInvalid(c) THEN <<>>
  ELSE IF ~multusIsAvailable THEN <<Call("multus_is_available", {})>>
  ELSE IF ~multus_is_ready(statefulset, podSpec)
    THEN <<Call("multus_is_available", {})>> \o is_ready_calls(statefulset)
  ELSE IF ~ConfigFileSeen(canConn, configFile, f)
    THEN <<Call("multus_is_available", {})>> \o is_ready_calls(statefulset)
         \o upf_config_file_is_written_calls(canConn)
  ELSE <<Call("multus_is_available", {})>> \o is_ready_calls(statefulset)
       \o upf_config_file_is_written_calls(canConn)
       \o <<Call("restart", {"eupf"})>>

\* _on_collect_status: the calls the handler issues, in order, up to the
\* branch in which it returns.
on_collect_status_calls(isLeader, c, multusIsAvailable, statefulset, podSpec, canConn, configFile, f) ==
  IF ~isLeader \/ CharmConfigInvalid(c) THEN <<>>
  ELSE IF ~multusIsAvailable THEN <<Call("multus_is_available", {})>>
  ELSE IF ~multus_is_ready(statefulset, podSpec)
    THEN <<Call("multus_is_available", {})>> \o is_ready_calls(statefulset)
  ELSE IF ~ConfigFileSeen(canConn, configFile, f)
    THEN <<Call("multus_is_available", {})>> \o is_ready_calls(statefulset)
         \o upf_config_file_is_written_calls(canConn)
  ELSE <<Call("multus_is_available", {})>> \o is_ready_calls(statefulset)
       \o upf_config_file_is_written_calls(canConn)
       \o <<Call("get_service", {"eupf"})>>

\* =================================================================== state
VARIABLES
  leader,           \* unit.is_leader()
  config,           \* the charm configuration (0: invalid)
  canConnect,       \* container.can_connect()
  multusAvailable,  \* KubernetesMultusCharmLib.multus_is_available()
  services,         \* Services of the namespace
  sts,              \* the StatefulSet of the application
  pod,              \* the containers of the unit's running Pod
  routes,           \* routing table of the workload
  ipForward,        \* net.ipv4.ip_forward of the workload
  file,             \* /etc/eupf/config.yaml: <<>> or <<content>>
  plan,             \* services of the pebble plan
  running,          \* the eupf pebble service is active
  loaded,           \* the config file the running service read when it started
  relations,        \* ids of the fiveg_n4 relations
  n4data,           \* what is published on them
  calls,            \* calls of the last handler, in order
  exc,              \* exception that left the last handler ("none")
  changed,          \* value of _generate_config_file in the last pass
  outcome,          \* where the last handler ended
  last,             \* the last handler or environment step
  fault,            \* the fault the environment injected in the last handler
  unitStatus,       \* statuses added by the collect-status that just ran
  removed,          \* the remove event was handled
  faultsLeft,       \* faults the environment may still inject
  n3relations,      \* ids of the fiveg_n3 relations the model holds
  n3bag,            \* upf_ip_address of the provider's application databag, per relation
  n3published,      \* <<relation, address>> of every publish that returned
  n3op,             \* the last operation on the fiveg_n3 side, with its arguments
  n3exc,            \* exception that left it ("none")
  n3emitted         \* custom events it emitted

charmVars ==
  <<leader, config, canConnect, multusAvailable, services, sts, pod, routes,
    ipForward, file, plan, running, loaded, relations, n4data, calls, exc,
    changed, outcome, last, fault, unitStatus, removed, faultsLeft>>

n3Vars == <<n3relations, n3bag, n3published, n3op, n3exc, n3emitted>>

vars == <<charmVars, n3Vars>>

envVars == <<leader, canConnect, multusAvailable, pod>>
storeVars == <<services, sts, routes, ipForward, file, plan, running, loaded, n4data>>
handlerVars == <<calls, exc, changed, outcome, fault>>

\* The record a handler starts from.
Start ==
  [services |-> services, sts |-> sts, routes |-> routes, ipForward |-> ipForward,
   file |-> file, plan |-> plan, running |-> running, loaded |-> loaded,
   n4data |-> n4data,
   calls |-> <<>>, exc |-> "none", changed |-> "none", outcome |-> "none"]

\* The history of the last handler, forgotten by every other step.
NoHistory ==
  /\ calls' = <<>>
  /\ exc' = "none"
  /\ changed' = "none"
  /\ outcome' = "none"
  /\ fault' = NoFault

\* The fault budget: an injected fault uses one.
Inject(f) ==
  /\ f # NoFault => faultsLeft > 0
  /\ faultsLeft' = IF f = NoFault THEN faultsLeft ELSE faultsLeft - 1

\* What a handler leaves behind.
Commit(s, f, name) ==
  /\ Inject(f)
  /\ unitStatus' = <<>>
  /\ services' = s.services
  /\ sts' = s.sts
  /\ routes' = s.routes
  /\ ipForward' = s.ipForward
  /\ file' = s.file
  /\ plan' = s.plan
  /\ running' = s.running
  /\ loaded' = s.loaded
  /\ n4data' = s.n4data
  /\ calls' = s.calls
  /\ exc' = s.exc
  /\ changed' = s.changed
  /\ outcome' = s.outcome
  /\ fault' = f
  /\ last' = name
  /\ UNCHANGED n3Vars

WithinBounds(s) ==
  /\ Len(s.sts.volumes) <= MaxList
  /\ \A i \in 1..Len(s.sts.containers) : Len(s.sts.containers[i].volumeMounts) <= MaxList

\* What the workload container may hold before the charm's first pass: nothing;
\* a service of another layer and the document of configuration 1 in another
\* spelling; an older definition of the eupf service and a text that is not YAML.
InitWorkloads ==
  { [plan |-> {}, file |-> <<>>],
    [plan |-> {OtherService}, file |-> <<[doc |-> 1, fmt |-> 2]>>],
    [plan |-> {StaleEupfService}, file |-> <<[doc |-> 0, fmt |-> 2]>>] }

Init ==
  /\ leader \in BOOLEAN
  /\ config \in Configs
  /\ canConnect \in BOOLEAN
  /\ multusAvailable \in BOOLEAN
  /\ services = {}
  /\ sts = InitStatefulSet
  /\ pod = InitContainers
  /\ routes = {}
  /\ ipForward = FALSE
  /\ \E w \in InitWorkloads : file = w.file /\ plan = w.plan
  /\ running = FALSE
  /\ loaded = <<>>
  /\ relations = {}
  /\ n4data = {}
  /\ calls = <<>>
  /\ exc = "none"
  /\ changed = "none"
  /\ outcome = "none"
  /\ last = "init"
  /\ fault = NoFault
  /\ unitStatus = <<>>
  /\ removed = FALSE
  /\ faultsLeft = MaxFaults
  /\ n3relations = {}
  /\ n3bag = [r \in 1..MaxN3Relations |-> NoAddress]
  /\ n3published = {}
  /\ n3op = [name |-> "none", rel |-> 0, addr |-> NoAddress]
  /\ n3exc = "none"
  /\ n3emitted = <<>>


\* ================================================================= actions
\* A fault is injected only where the handler reaches the call it names.
Effective(f, withFault, without) == f = NoFault \/ withFault # without

Pass(c, rels, f) ==
  configure(Start, f, c, leader, canConnect, multusAvailable, pod, rels)

StatusNow(f) ==
  on_collect_status(leader, config, multusAvailable, sts, pod, canConnect, file,
                    plan, running, f)

\* A handler ran from Start to s (s0: the same run without the fault).
HandlerStep(s, s0, f, name) ==
  /\ Effective(f, s, s0)
  /\ WithinBounds(s)
  /\ Commit(s, f, name)

\* config-changed: Juju hands over the new configuration and _configure runs.
ConfigChanged(c, f) ==
  /\ ~removed
  /\ HandlerStep(Pass(c, relations, f), Pass(c, relations, NoFault), f, "configure")
  /\ config' = c
  /\ UNCHANGED <<envVars, relations, removed>>

\* update-status: _configure runs with the configuration as it is.
UpdateStatus(f) ==
  /\ ~removed
  /\ HandlerStep(Pass(config, relations, f), Pass(config, relations, NoFault),
                 f, "configure")
  /\ UNCHANGED <<envVars, config, relations, removed>>

\* fiveg_n4_request: a requirer joined the fiveg_n4 relation and _configure runs.
FivegN4Request(rel, f) ==
  /\ ~removed
  /\ rel \notin relations
  /\ HandlerStep(Pass(config, relations \cup {rel}, f),
                 Pass(config, relations \cup {rel}, NoFault), f, "configure")
  /\ relations' = relations \cup {rel}
  /\ UNCHANGED <<envVars, config, removed>>

\* remove: _on_remove runs; it is the unit's last event.
Remove(f) ==
  /\ ~removed
  /\ HandlerStep(on_remove(Start, f, config), on_remove(Start, NoFault, config),
                 f, "remove")
  /\ removed' = TRUE
  /\ UNCHANGED <<envVars, config, relations>>

\* collect-status: the framework evaluates the unit status.
CollectStatus(f) ==
  /\ f.site \in {"none", "file.exists"}
  /\ Effective(f, StatusNow(f), StatusNow(NoFault))
  /\ unitStatus' = StatusNow(f)
  /\ Inject(f)
  /\ last' = "status"
  /\ calls' = on_collect_status_calls(leader, config, multusAvailable, sts, pod,
                                      canConnect, file, f)
  /\ exc' = "none"
  /\ changed' = "none"
  /\ outcome' = "none"
  /\ fault' = f
  /\ UNCHANGED <<envVars, storeVars, config, relations, removed, n3Vars>>

\* The StatefulSet controller recreates the Pod from the template.
PodRollout ==
  /\ ~removed
  /\ pod # sts.containers
  /\ pod' = sts.containers
  /\ last' = "env"
  /\ unitStatus' = <<>>
  /\ NoHistory
  /\ UNCHANGED <<leader, config, canConnect, multusAvailable, storeVars,
                 relations, removed, faultsLeft, n3Vars>>

\* Pebble of the workload container becomes reachable or unreachable.
PebbleFlips ==
  /\ ~removed
  /\ canConnect' = ~canConnect
  /\ last' = "env"
  /\ unitStatus' = <<>>
  /\ NoHistory
  /\ UNCHANGED <<leader, config, multusAvailable, pod, storeVars,
                 relations, removed, faultsLeft, n3Vars>>

Next ==
  \/ \E c \in Configs, f \in Faults : ConfigChanged(c, f)
  \/ \E f \in Faults : UpdateStatus(f)
  \/ \E rel \in 1..MaxRelations, f \in Faults : FivegN4Request(rel, f)
  \/ \E f \in Faults : Remove(f)
  \/ \E f \in Faults : CollectStatus(f)
  \/ PodRollout
  \/ PebbleFlips

Spec == Init /\ [][Next]_vars

\* ====================================================== the nominal deployment
\* A leader with a valid configuration that stays, a container that can be
\* connected to, Multus available and no call that fails: the triggers of a
\* pass, collect-status and the rollout of the pod are all that happens.
\* collect-status runs at the end of every hook and the StatefulSet controller
\* recreates the pod after a change of the template (weak fairness of both);
\* update-status comes again and again, so that passes never cease.
InitConverge ==
  /\ Init
  /\ leader /\ canConnect /\ multusAvailable
  /\ config \in ValidConfigs

NextConverge ==
  \/ ConfigChanged(config, NoFault)
  \/ UpdateStatus(NoFault)
  \/ \E rel \in 1..MaxRelations : FivegN4Request(rel, NoFault)
  \/ CollectStatus(NoFault)
  \/ PodRollout

SpecConverge ==
  /\ InitConverge
  /\ [][NextConverge]_vars
  /\ WF_vars(CollectStatus(NoFault))
  /\ WF_vars(PodRollout)
  /\ []<><<last' = "configure">>_vars

\* ================================================ the load balancer at work
\* The deployment of a leader whose container can be connected to, with Multus
\* available, in a cluster whose load balancer gives the PFCP Service a
\* hostname, or takes it back, at any time.
LbHostnames == {"", "lb.example.com"}

\* The cluster writes the hostname to status.loadBalancer.ingress of the
\* Service.
LoadBalancerAssigns(h) ==
  /\ ~removed
  /\ \E x \in services :
       /\ x.name = ServiceNameExt
       /\ x.lbHostname # h
       /\ services' = (services \ {x}) \cup {[x EXCEPT !.lbHostname = h]}
  /\ last' = "env"
  /\ unitStatus' = <<>>
  /\ NoHistory
  /\ UNCHANGED <<leader, config, canConnect, multusAvailable, pod, sts, routes,
                 ipForward, file, plan, running, loaded, n4data, relations,
                 removed, faultsLeft, n3Vars>>

NextN4 ==
  \/ \E c \in ValidConfigs, f \in Faults : ConfigChanged(c, f)
  \/ \E rel \in 1..MaxRelations, f \in Faults : FivegN4Request(rel, f)
  \/ \E h \in LbHostnames : LoadBalancerAssigns(h)
  \/ PodRollout

SpecN4 == InitConverge /\ [][NextN4]_vars

\* ============================================== the fiveg_n3 relation alone
\* The library of the fiveg_n3 interface, driven by the events of its relation
\* and by a provider charm that publishes; the unit of the charm stands still.
InitN3 ==
  /\ Init
  /\ leader /\ canConnect /\ multusAvailable
  /\ config = 1
  /\ plan = {}

N3Step(name, rel, addr) ==
  /\ n3op' = [name |-> name, rel |-> rel, addr |-> addr]
  /\ UNCHANGED charmVars

\* The relation is established.
N3RelationCreated(rel) ==
  /\ rel \notin n3relations
  /\ n3relations' = n3relations \cup {rel}
  /\ n3exc' = "none"
  /\ n3emitted' = <<>>
  /\ N3Step("relation_created", rel, NoAddress)
  /\ UNCHANGED <<n3bag, n3published>>

\* relation-joined on the provider.
N3ProviderRelationJoined(rel) ==
  /\ rel \in n3relations
  /\ n3emitted' = N3Provides_on_relation_joined(rel)
  /\ n3exc' = "none"
  /\ N3Step("provider.relation_joined", rel, NoAddress)
  /\ UNCHANGED <<n3relations, n3bag, n3published>>

\* The provider charm calls publish_upf_information.
N3Publish(rel, addr) ==
  /\ n3bag' = publish_upf_information(n3bag, n3relations, rel, addr).bag
  /\ n3exc' = publish_upf_information(n3bag, n3relations, rel, addr).exc
  /\ n3published' = IF n3exc' = "none" THEN n3published \cup {<<rel, addr>>}
                    ELSE n3published
  /\ n3emitted' = <<>>
  /\ N3Step("publish", rel, addr)
  /\ UNCHANGED n3relations

\* relation-joined or relation-changed on the requirer.
N3RequirerEvent(name, rel) ==
  /\ rel \in n3relations
  /\ n3emitted' = N3Requires_on_relation_changed(n3bag, rel)
  /\ n3exc' = "none"
  /\ N3Step(name, rel, NoAddress)
  /\ UNCHANGED <<n3relations, n3bag, n3published>>

\* The relation is removed, and its databags with it.
N3RelationBroken(rel) ==
  /\ rel \in n3relations
  /\ n3relations' = n3relations \ {rel}
  /\ n3bag' = [n3bag EXCEPT ![rel] = NoAddress]
  /\ n3exc' = "none"
  /\ n3emitted' = <<>>
  /\ N3Step("relation_broken", rel, NoAddress)
  /\ UNCHANGED n3published

RequirerEvents == {"requirer.relation_joined", "requirer.relation_changed"}

NextN3 ==
  \/ \E rel \in 1..MaxN3Relations : N3RelationCreated(rel)
  \/ \E rel \in 1..MaxN3Relations : N3ProviderRelationJoined(rel)
  \/ \E rel \in 1..MaxN3Relations, addr \in Addresses : N3Publish(rel, addr)
  \/ \E name \in RequirerEvents, rel \in 1..MaxN3Relations : N3RequirerEvent(name, rel)
  \/ \E rel \in 1..MaxN3Relations : N3RelationBroken(rel)

SpecN3 == InitN3 /\ [][NextN3]_vars

\* ================================================================== claims
MutatingOps ==
  {"svc.apply", "svc.delete", "sts.patch", "sts.replace", "push", "add_layer",
   "replan", "restart", "relation.set"}

\* A call that changes something: a write, or an exec other than `ip route show`.
IsMutating(call) ==
  \/ call.op \in MutatingOps
  \/ call.op = "exec" /\ call.arg # {"ip route show"}

MutatingCalls(cs) == {i \in 1..Len(cs) : IsMutating(cs[i])}
CallsOf(cs, op) == {i \in 1..Len(cs) : cs[i].op = op}
HasCall(cs, op) == CallsOf(cs, op) # {}

\* C1: a reconciliation pass that directly follows a complete, fault-free pass
\* with the same configuration (nothing external happened in between) issues no
\* mutating call.
C1_IdempotentPasses ==
  [][(/\ last = "configure" /\ outcome = "done" /\ fault = NoFault
      /\ last' = "configure" /\ fault' = NoFault
      /\ config' = config /\ relations' = relations)
     => MutatingCalls(calls') = {}]_vars


\* The pass that just ran reached _generate_config_file.
ReachedConfigFile == last' = "configure" /\ changed' # "none"

\* The file on disk parses to the same YAML document as the rendering of c.
FileMatches(f, c) ==
  /\ Len(f) > 0
  /\ YamlOk(f[1])
  /\ safe_load(f[1]) = safe_load(render_upf_config_file(c))

\* C2: in a pass whose pebble calls all succeed, the config file makes the
\* round trip: absent, it is written with the rendering of the configuration and
\* changed=true is reported; holding the same content, nothing is written and
\* changed=false is reported; holding other content, it is rewritten and
\* changed=true is reported; and restart is invoked in exactly the passes that
\* report changed=true.
C2_RoundTrip ==
  [][ReachedConfigFile /\ fault'.site \notin PebbleSites =>
       /\ (file = <<>> =>
             /\ changed' = "true"
             /\ Cardinality(CallsOf(calls', "push")) = 1
             /\ file' = <<render_upf_config_file(config')>>)
       /\ (FileMatches(file, config') =>
             changed' = "false" /\ ~HasCall(calls', "push") /\ file' = file)
       /\ (file # <<>> /\ ~FileMatches(file, config') =>
             /\ changed' = "true"
             /\ Cardinality(CallsOf(calls', "push")) = 1
             /\ file' = <<render_upf_config_file(config')>>)
       /\ (HasCall(calls', "restart") <=> changed' = "true")]_vars

\* A second pass with the same content: nothing written, no restart.
C2_Witness ==
  /\ last = "configure" /\ changed = "false" /\ fault = NoFault
  /\ file = <<render_upf_config_file(config)>>
  /\ ~HasCall(calls, "push") /\ ~HasCall(calls, "restart")

\* The pass that just ran reached _configure_pfcp_service.
ReachedPfcpService ==
  last' = "configure" /\ outcome' \notin {"invalid_config", "not_leader", "cannot_connect"}

ServiceExists(svcs) == \E x \in svcs : x.name = ServiceNameExt

\* What the next fetch of the PFCP Service answers.
NextFetchOfService(svcs) ==
  PFCPService_is_created([services |-> svcs, calls |-> <<>>, exc |-> "none"], NoFault).val

C4_TransientFetchNoApply ==
  last = "configure" /\ fault.kind \in {"Unauthorized", "Unreachable"} =>
    /\ (fault.site = "svc.get" => ~HasCall(calls, "svc.apply"))
    /\ (fault.site \in {"ebpf.pod.get", "ebpf.sts.get"} => ~HasCall(calls, "sts.replace"))
    /\ (fault.site = "multus.sts.get" => ~HasCall(calls, "sts.patch"))

\* The pass went on to the routes, IP forwarding, the config file and pebble.
AttemptedTheRest(cs) ==
  /\ \E i \in 1..Len(cs) : cs[i] = Call("exec", {"ip route show"})
  /\ \E i \in 1..Len(cs) : cs[i] = Call("exec", {"sysctl -w net.ipv4.ip_forward=1"})
  /\ HasCall(cs, "exists")
  /\ HasCall(cs, "get_plan")

\* C5: a pass in which the apply of the PFCP Service, the Multus patch or
\* EBPFVolume.create failed still attempts the other resources.
C5_FailureIsolation ==
  /\ last = "configure"
  /\ multusAvailable
  /\ fault.site \in {"svc.apply", "multus.patch.get", "multus.patch",
                     "ebpf.create.get", "ebpf.replace"}
  => AttemptedTheRest(calls)


SecurityContextApplied(containers) ==
  container_security_context_is_set(containers, ContainerName, CAP_NET_ADMIN, PRIVILEGED)

\* C6: a pass that finds the StatefulSet with the security context applied and
\* only the ebpf volume missing performs no full replace of the StatefulSet,
\* and whatever it sends names the volume and its mount only.
C6_PatchOnlyMissingField ==
  [][(/\ last' = "configure" /\ outcome' \in {"done", "raised"}
      /\ SecurityContextApplied(sts.containers)
      /\ ~statefulset_contains_requested_volume(sts, requested_volume))
     => /\ ~HasCall(calls', "sts.replace")
        /\ \A i \in CallsOf(calls', "sts.patch") :
              calls'[i].arg \subseteq {"volumes", "containers.volumeMounts"}]_vars

\* The config file is not seen in the container: it is not there, or the
\* container cannot be reached to look.
ConfigFileMissing == ~canConnect \/ fault.site = "file.exists" \/ file = <<>>

ServiceNotRunning == ~(running /\ \E x \in plan : x.name = "eupf")

\* C7: collect-status adds exactly one status, the one of the first condition
\* that fails in the order: not leader, invalid configuration, Multus
\* unavailable, Multus not ready, config file missing, service not running;
\* Active when none fails.
C7_StatusPrecedence ==
  last = "status" =>
    /\ Len(unitStatus) = 1
    /\ unitStatus[1] =
         IF ~leader
           THEN Status("blocked", "Scaling is not implemented for this charm")
         ELSE IF config \notin ValidConfigs
           THEN Status("blocked", InvalidConfigMessage)
         ELSE IF ~multusAvailable
           THEN Status("blocked", "Multus is not installed or enabled")
         ELSE IF ~(SecurityContextApplied(sts.containers) /\ SecurityContextApplied(pod))
           THEN Status("waiting", "Waiting for Multus to be ready")
         ELSE IF ConfigFileMissing
           THEN Status("waiting", "Waiting for UPF configuration file")
         ELSE IF ServiceNotRunning
           THEN Status("waiting", "Waiting for UPF service to start")
         ELSE Status("active", "")

\* Leadership, configuration and Multus fail at once: leadership is reported.
C7_Witness ==
  /\ last = "status" /\ ~leader /\ config \notin ValidConfigs /\ ~multusAvailable
  /\ unitStatus = <<Status("blocked", "Scaling is not implemented for this charm")>>

\* Every managed resource is Synced.
AllSynced ==
  /\ DesiredService \in services
  /\ statefulset_contains_requested_volume(sts, requested_volume)
  /\ pod_contains_requested_volumemount(pod, ContainerName, requested_volumemount)
  /\ SecurityContextApplied(sts.containers)
  /\ SecurityContextApplied(pod)
  /\ FileMatches(file, config)
  /\ ~ServiceNotRunning

\* C8: a collect-status whose own calls all succeed reports Active exactly
\* when every managed resource is Synced.
C8_ActiveIffAllSynced ==
  last = "status" /\ fault = NoFault /\ ~removed =>
    (unitStatus = <<ActiveStatus>> <=> AllSynced)

\* C9: a pass in which the push of the config file failed issues no restart.
C9_NoRestartAfterFailedPush ==
  last = "configure" /\ fault.site = "file.push" => ~HasCall(calls, "restart")

\* C10: a NotFound answer to the get of the Pod or of the StatefulSet leaves
\* the pass without an exception.
C10_NotFoundIsAbsent ==
  last = "configure" /\ fault.kind = "NotFound" /\ fault.site \in K8sReadSites
    => exc = "none"


\* The calls that apply a Kubernetes resource (their gets included).
ApplySites ==
  {"svc.apply", "multus.patch.get", "multus.patch", "ebpf.create.get", "ebpf.replace"}

\* C11: an error raised while applying a resource (the get or the replace of
\* the StatefulSet rejected, the apply of the Service rejected) does not leave
\* the pass as an exception.
C11_ApplyErrorIsCaptured ==
  last = "configure" /\ fault.site \in ApplySites => exc = "none"

\* C12: the remove event leaves no PFCP Service behind, raises nothing when
\* the Service is absent or the delete answers with an HTTP error, and changes
\* nothing but the Service.
C12_RemoveDeletesService ==
  [][last' = "remove" =>
       /\ (fault'.kind # "Unreachable" => exc' = "none")
       /\ (fault' = NoFault => ~ServiceExists(services'))
       /\ UNCHANGED <<sts, routes, ipForward, file, plan, running, loaded, n4data>>]_vars


\* A complete pass with the same configuration directly follows a pass in which
\* the call at `site` failed.
NextPassAfterFailureAt(site) ==
  /\ last = "configure" /\ fault.site = site
  /\ last' = "configure" /\ fault' = NoFault /\ outcome' = "done"
  /\ config' = config

\* C13: the pass that follows an interrupted one corrects what it left: it
\* replans after a failed replan, restarts after a failed restart, pushes
\* after a failed push.
C13_NextPassCorrects ==
  [][/\ (NextPassAfterFailureAt("plan.replan") => HasCall(calls', "replan"))
     /\ (NextPassAfterFailureAt("plan.restart") => HasCall(calls', "restart"))
     /\ (NextPassAfterFailureAt("file.push") => HasCall(calls', "push"))]_vars


\* C14: a complete, fault-free pass applies nothing to a resource whose managed
\* fields are all there, whatever else the resource holds: no replace when the
\* ebpf volume and mount are there beside other volumes, no patch when the
\* security context is applied, no add_layer and no replan when the plan holds
\* the eupf service of the layer beside other services.
C14_ExtrasNeverTriggerApply ==
  [][last' = "configure" /\ outcome' = "done" /\ fault' = NoFault =>
       /\ (/\ statefulset_contains_requested_volume(sts, requested_volume)
           /\ pod_contains_requested_volumemount(pod, ContainerName, requested_volumemount)
           => ~HasCall(calls', "sts.replace"))
       /\ (SecurityContextApplied(sts.containers) => ~HasCall(calls', "sts.patch"))
       /\ (pebble_layer_services \subseteq plan =>
             ~HasCall(calls', "add_layer") /\ ~HasCall(calls', "replan"))]_vars


\* s is a prefix of t.
IsPrefix(s, t) == Len(s) <= Len(t) /\ \A i \in 1..Len(s) : t[i] = s[i]

\* Everything but the Services is in r as it is now.
OnlyServicesDiffer(r) ==
  /\ r.sts = sts /\ r.routes = routes /\ r.ipForward = ipForward
  /\ r.file = file /\ r.plan = plan /\ r.running = running
  /\ r.loaded = loaded /\ r.n4data = n4data

\* Everything but the StatefulSet is in r as it is now.
OnlyStatefulSetDiffers(r) ==
  /\ r.services = services /\ r.routes = routes /\ r.ipForward = ipForward
  /\ r.file = file /\ r.plan = plan /\ r.running = running
  /\ r.loaded = loaded /\ r.n4data = n4data

OtherServices(svcs) == {x \in svcs : x.name # ServiceNameExt}

\* The StatefulSet b is a with at most volumes and volumeMounts added.
OnlyVolumesAdded(a, b) ==
  /\ b.selector = a.selector /\ b.serviceName = a.serviceName
  /\ IsPrefix(a.volumes, b.volumes)
  /\ Len(b.containers) = Len(a.containers)
  /\ \A i \in 1..Len(a.containers) :
        /\ b.containers[i].name = a.containers[i].name
        /\ b.containers[i].securityContext = a.containers[i].securityContext
        /\ IsPrefix(a.containers[i].volumeMounts, b.containers[i].volumeMounts)
        /\ (a.containers[i].name # ContainerName =>
              b.containers[i].volumeMounts = a.containers[i].volumeMounts)

\* The StatefulSet b is a with at most the workload container's security
\* context changed.
OnlySecurityContextChanged(a, b) ==
  /\ b.selector = a.selector /\ b.serviceName = a.serviceName
  /\ b.volumes = a.volumes
  /\ Len(b.containers) = Len(a.containers)
  /\ \A i \in 1..Len(a.containers) :
        /\ b.containers[i].name = a.containers[i].name
        /\ b.containers[i].volumeMounts = a.containers[i].volumeMounts
        /\ (a.containers[i].name # ContainerName =>
              b.containers[i].securityContext = a.containers[i].securityContext)

\* C15: from every state the charm reaches, PFCPService.create and delete
\* change only the '<app>-external' Service, EBPFVolume.create changes only the
\* volumes and the workload container's volumeMounts of the StatefulSet and
\* leaves every security context, and the Multus patch changes only the
\* workload container's security context and leaves volumes and volumeMounts.
C15_DriversKeepToTheirResource ==
  /\ OnlyServicesDiffer(PFCPService_create(Start, NoFault))
  /\ OtherServices(PFCPService_create(Start, NoFault).services) = OtherServices(services)
  /\ OnlyServicesDiffer(PFCPService_delete(Start, NoFault))
  /\ OtherServices(PFCPService_delete(Start, NoFault).services) = OtherServices(services)
  /\ OnlyStatefulSetDiffers(EBPFVolume_create(Start, NoFault))
  /\ OnlyVolumesAdded(sts, EBPFVolume_create(Start, NoFault).sts)
  /\ OnlyStatefulSetDiffers(patch_statefulset(Start, NoFault, CAP_NET_ADMIN, PRIVILEGED))
  /\ OnlySecurityContextChanged(
       sts, patch_statefulset(Start, NoFault, CAP_NET_ADMIN, PRIVILEGED).sts)

\* A pass patched the security context and then replaced the StatefulSet with
\* the ebpf volume: both are there, beside the volume that was there before.
C15_Witness ==
  /\ last = "configure" /\ HasCall(calls, "sts.patch") /\ HasCall(calls, "sts.replace")
  /\ SecurityContextApplied(sts.containers)
  /\ statefulset_contains_requested_volume(sts, requested_volume)
  /\ InSeq(CharmDataVolume, sts.volumes)
  /\ services = {DesiredService}


\* The Service without what the cluster reports about it.
SpecOf(svc) == [svc EXCEPT !.lbHostname = ""]

WorkloadContainer(s) == s.containers[get_container_index(s.containers, ContainerName)]

NominalPass ==
  /\ last' = "configure" /\ fault' = NoFault
  /\ leader /\ config' \in ValidConfigs /\ canConnect /\ multusAvailable

StatusWithMultusReady ==
  /\ last = "status" /\ leader /\ config \in ValidConfigs /\ multusAvailable
  /\ SecurityContextApplied(sts.containers) /\ SecurityContextApplied(pod)

\* C19: with Multus ready, when the container cannot be connected to or the
\* config file is not there, collect-status reports Waiting for the config
\* file, and nothing else.
C19_WaitingForConfigFile ==
  StatusWithMultusReady /\ (~canConnect \/ file = <<>>) =>
    unitStatus = <<Status("waiting", "Waiting for UPF configuration file")>>

\* The file is there and the service runs, but the container cannot be
\* connected to.
C19_Witness ==
  /\ StatusWithMultusReady /\ ~canConnect /\ file # <<>> /\ ~ServiceNotRunning
  /\ unitStatus = <<Status("waiting", "Waiting for UPF configuration file")>>

\* C20: with Multus ready and the config file seen in the container, when the
\* eupf service is not running or the plan does not define it, collect-status
\* reports Waiting for the service to start, and nothing else.
C20_WaitingForService ==
  StatusWithMultusReady /\ ~ConfigFileMissing /\ ServiceNotRunning =>
    unitStatus = <<Status("waiting", "Waiting for UPF service to start")>>

\* The file is there and the plan defines no eupf service.
C20_Witness ==
  /\ StatusWithMultusReady /\ ~ConfigFileMissing
  /\ ~\E x \in plan : x.name = "eupf"
  /\ unitStatus = <<Status("waiting", "Waiting for UPF service to start")>>

\* The calls that read a resource, and the calls that write one.
FetchOps == {"svc.get", "sts.get", "pod.get", "exists", "pull", "get_plan"}
ApplyOps == {"svc.apply", "sts.patch", "sts.replace", "push", "add_layer", "replan", "restart"}

\* The call that a fault at the site makes fail.
OpOfSite(site) ==
  CASE site \in {"svc.get", "n4.svc.get"} -> "svc.get"
    [] site \in {"multus.sts.get", "multus.patch.get", "ebpf.sts.get", "ebpf.create.get"} -> "sts.get"
    [] site = "ebpf.pod.get" -> "pod.get"
    [] site = "multus.patch" -> "sts.patch"
    [] site = "ebpf.replace" -> "sts.replace"
    [] site = "file.exists" -> "exists"
    [] site = "file.pull" -> "pull"
    [] site = "file.push" -> "push"
    [] site = "plan.get" -> "get_plan"
    [] site = "plan.add_layer" -> "add_layer"
    [] site = "plan.replan" -> "replan"
    [] site = "plan.restart" -> "restart"
    [] site \in ExecSites -> "exec"
    [] OTHER -> site

AtMostOnce(cs, op) == Cardinality(CallsOf(cs, op)) <= 1

C23_PublishOrRaise ==
  [][n3op'.name = "publish" =>
       LET rel == n3op'.rel
           addr == n3op'.addr
       IN  /\ IPvAnyAddress(addr) /\ rel \in n3relations =>
                n3exc' = "none" /\ n3bag' = [n3bag EXCEPT ![rel] = addr]
           /\ ~IPvAnyAddress(addr) => n3exc' = "ValueError" /\ n3bag' = n3bag
           /\ IPvAnyAddress(addr) /\ rel \notin n3relations =>
                n3exc' = "RuntimeError" /\ n3bag' = n3bag]_vars

\* A publish of an invalid address on a relation that holds an address: it
\* raised and the address is still there.
C23_Witness ==
  /\ n3op.name = "publish" /\ n3exc = "ValueError"
  /\ n3op.rel \in n3relations /\ n3bag[n3op.rel] # NoAddress

\* C24: the provider emits fiveg_n3_request with the relation's id on every
\* relation-joined; the requirer emits fiveg_n3_available on relation-joined
\* and on relation-changed exactly when the provider's databag holds a
\* non-empty address, with that address, which the provider has published.
C24_RequestAndAvailable ==
  [][/\ n3op'.name = "provider.relation_joined" =>
          n3emitted' = << [event |-> "fiveg_n3_request", relation_id |-> n3op'.rel] >>
     /\ n3op'.name \in RequirerEvents =>
          /\ n3bag[n3op'.rel] \in {NoAddress, EmptyString} => n3emitted' = << >>
          /\ n3bag[n3op'.rel] \notin {NoAddress, EmptyString} =>
               /\ n3emitted' = << [event |-> "fiveg_n3_available",
                                    upf_ip_address |-> n3bag[n3op'.rel]] >>
               /\ <<n3op'.rel, n3bag[n3op'.rel]>> \in n3published]_vars

\* A relation-changed on the requirer that emitted the address published.
C24_Witness ==
  /\ n3op.name = "requirer.relation_changed"
  /\ n3bag[n3op.rel] # NoAddress
  /\ n3emitted = << [event |-> "fiveg_n3_available", upf_ip_address |-> n3bag[n3op.rel]] >>

\* How many elements of the sequence carry the name.
CountOfName(seq, name) == Cardinality({i \in 1..Len(seq) : seq[i].name = name})

\* C25: after any sequence of passes the StatefulSet template holds the 'ebpf'
\* volume at most once and the workload container holds the 'ebpf' volumeMount
\* at most once.
C25_EbpfVolumeAtMostOnce ==
  /\ CountOfName(sts.volumes, "ebpf") <= 1
  /\ \A i \in 1..Len(sts.containers) :
        sts.containers[i].name = ContainerName =>
          CountOfName(sts.containers[i].volumeMounts, "ebpf") <= 1

\* C26: a pass with an invalid configuration, or on a unit that is not the
\* leader, or whose container cannot be connected to, issues no mutating call
\* and leaves every resource as it was.
C26_NoMutationBeforeTheChecks ==
  [][last' = "configure" /\ (CharmConfigInvalid(config') \/ ~leader \/ ~canConnect) =>
       /\ MutatingCalls(calls') = {}
       /\ UNCHANGED storeVars]_vars

\* A pass of a leader with a valid configuration that could not connect, on a
\* deployment whose Service is not there yet.
C26_Witness ==
  /\ last = "configure" /\ outcome = "cannot_connect"
  /\ leader /\ config \in ValidConfigs /\ ~canConnect
  /\ ~ServiceExists(services) /\ calls = <<>>

\* C27: without Multus, a pass of a connectable leader with a valid
\* configuration changes nothing but the PFCP Service, and when no call fails
\* and the Service is absent it creates it.
C27_OnlyTheServiceWithoutMultus ==
  [][(/\ last' = "configure" /\ leader /\ canConnect /\ ~multusAvailable
      /\ config' \in ValidConfigs)
     => /\ \A i \in MutatingCalls(calls') : calls'[i].op = "svc.apply"
        /\ UNCHANGED <<sts, routes, ipForward, file, plan, running, loaded, n4data>>
        /\ fault' = NoFault /\ ~ServiceExists(services) =>
             /\ Cardinality(CallsOf(calls', "svc.apply")) = 1
             /\ services' = services \cup {DesiredService}]_vars

\* A pass without Multus that created the Service and stopped there.
C27_Witness ==
  /\ last = "configure" /\ outcome = "no_multus" /\ fault = NoFault
  /\ HasCall(calls, "svc.apply") /\ DesiredService \in services
  /\ sts = InitStatefulSet /\ routes = {} /\ ~running

\* patch_statefulset run on the StatefulSet as it is, then statefulset_is_patched
\* on the result.
PatchedAfterPatch(cap_net_admin, privileged) ==
  statefulset_is_patched(patch_statefulset(Start, NoFault, cap_net_admin, privileged),
                         NoFault, cap_net_admin, privileged).val

\* C29: for every combination of the two flags, patch_statefulset succeeds or
\* raises KubernetesMultusError, and after a patch that succeeded
\* statefulset_is_patched answers true for the same flags.
C29_PatchThenPatched ==
  \A cap_net_admin, privileged \in BOOLEAN :
     /\ patch_statefulset(Start, NoFault, cap_net_admin, privileged).exc
           \in {"none", "KubernetesMultusError"}
     /\ patch_statefulset(Start, NoFault, cap_net_admin, privileged).exc = "none"
           => PatchedAfterPatch(cap_net_admin, privileged)

\* The container of the name, with the security context the flags ask for, is
\* among the containers.
HasContainerWithContext(containers, name, cap_net_admin, privileged) ==
  \E i \in 1..Len(containers) :
     /\ containers[i].name = name
     /\ cap_net_admin => "NET_ADMIN" \in containers[i].securityContext.add
     /\ privileged => containers[i].securityContext.privileged

\* Names a caller of the library may ask for: the container of the charm's
\* workload, and one that the StatefulSet does not hold.
RequestedNames == {ContainerName, "bessd"}

\* C30: the check behind statefulset_is_patched and pod_is_ready answers true
\* only if a container of the requested name is in the observed spec and has
\* the requested security context.
C30_PatchedOnlyWithTheContainer ==
  \A name \in RequestedNames, cap_net_admin, privileged \in BOOLEAN :
     /\ container_security_context_is_set(sts.containers, name, cap_net_admin, privileged)
          => HasContainerWithContext(sts.containers, name, cap_net_admin, privileged)
     /\ container_security_context_is_set(pod, name, cap_net_admin, privileged)
          => HasContainerWithContext(pod, name, cap_net_admin, privileged)

\* Every resource the pass manages is as the configuration wants it.
EveryResourceDesired ==
  /\ AllSynced
  /\ {DefaultRoute, RanRoute} \subseteq routes
  /\ ipForward
  /\ pebble_layer_services \subseteq plan
  /\ \A rel \in relations : \E d \in n4data : d.rel = rel

\* C28: in the nominal deployment the triggers eventually bring every managed
\* resource to its desired state for good, collect-status reports Active again
\* and again, and from some point on it reports nothing but Active.
C28_Converges ==
  /\ <>[](EveryResourceDesired /\ (last = "status" => unitStatus = <<ActiveStatus>>))
  /\ []<>(last = "status" /\ unitStatus = <<ActiveStatus>>)

\* Active reported after a pass that came after the rollout of the pod.
C28_Witness ==
  /\ last = "status" /\ unitStatus = <<ActiveStatus>> /\ EveryResourceDesired
  /\ relations # {}

\* Every call of the first operation comes before every call of the second.
AllBefore(cs, a, b) == \A i \in CallsOf(cs, a), j \in CallsOf(cs, b) : i < j

\* The operations on the workload container through pebble.
PebbleOps == {"exists", "pull", "push", "get_plan", "add_layer", "replan", "restart"}

\* C31: in a pass, get_plan comes before add_layer, add_layer before replan
\* and replan before restart; when get_plan, add_layer or replan fails with a
\* connection error, the failed call is the last pebble operation of the pass
\* (no restart), the pass raises nothing and it publishes on every fiveg_n4
\* relation.
C31_PebbleOrderAndEarlyReturn ==
  last = "configure" =>
    /\ AllBefore(calls, "get_plan", "add_layer")
    /\ AllBefore(calls, "add_layer", "replan")
    /\ AllBefore(calls, "replan", "restart")
    /\ AllBefore(calls, "get_plan", "restart")
    /\ fault.site \in {"plan.get", "plan.add_layer", "plan.replan"} =>
         /\ \A i \in CallsOf(calls, OpOfSite(fault.site)), j \in 1..Len(calls) :
               calls[j].op \in PebbleOps => j <= i
         /\ CallsOf(calls, OpOfSite(fault.site)) # {}
         /\ ~HasCall(calls, "restart")
         /\ exc = "none" /\ outcome = "done"
         /\ Cardinality(CallsOf(calls, "relation.set")) = Cardinality(relations)
         /\ \A rel \in relations : \E d \in n4data : d.rel = rel

\* A pass that rewrote the config file and whose replan failed: no restart,
\* and the relation data is published.
C31_Witness ==
  /\ last = "configure" /\ fault.site = "plan.replan" /\ changed = "true"
  /\ HasCall(calls, "replan") /\ ~HasCall(calls, "restart")
  /\ relations # {} /\ HasCall(calls, "relation.set")

\* The hostname the precedence of C32 chooses, given the configuration and the
\* Services of the namespace.
HostnameByPrecedence(c, svcs) ==
  IF ExternalHostname(c) # "" THEN ExternalHostname(c)
  ELSE IF \E x \in svcs : x.name = ServiceNameExt /\ x.lbHostname # ""
    THEN (CHOOSE x \in svcs : x.name = ServiceNameExt).lbHostname
  ELSE "eupf-external.whatever.svc.cluster.local"

\* C32: a complete pass leaves, for each fiveg_n4 relation, port 8805 and the
\* hostname chosen by the precedence (configured, else the load balancer's,
\* else the cluster-local name), one write per relation; with no relation it
\* publishes nothing.
C32_PublishedByPrecedence ==
  [][last' = "configure" /\ outcome' = "done" =>
       /\ n4data' = {[rel |-> rel, port |-> 8805,
                      hostname |-> HostnameByPrecedence(config', services')] :
                       rel \in relations'}
       /\ Cardinality(CallsOf(calls', "relation.set")) = Cardinality(relations')
       /\ relations' = {} => n4data' = n4data]_vars

\* A complete pass without a configured hostname that published the hostname
\* of the load balancer.
C32_Witness ==
  /\ last = "configure" /\ outcome = "done" /\ ExternalHostname(config) = ""
  /\ \E d \in n4data : d.hostname = "lb.example.com" /\ d.port = 8805

\* C33: a status evaluation issues no mutating call, in any branch, and leaves
\* every managed resource and the relation data as they were.
C33_StatusIsReadOnly ==
  [][last' = "status" =>
       /\ MutatingCalls(calls') = {}
       /\ UNCHANGED <<storeVars, relations>>]_vars

\* A status evaluation that went through every check, down to the service,
\* and found it stopped.
C33_Witness ==
  /\ last = "status" /\ HasCall(calls, "get_service") /\ HasCall(calls, "exists")
  /\ unitStatus = <<Status("waiting", "Waiting for UPF service to start")>>
  /\ file # <<>> /\ ServiceExists(services)


====
